---- MODULE Spec2Model ----
(***************************************************************************)
(* QuickCap: the stream helpers of src/src/lib/videoUtils.ts and the       *)
(* capture page (src/unnamed/part_000) that drives them.                   *)
(*                                                                         *)
(* The host (the browser's media devices, the timer queue, the <video>     *)
(* element) is the environment: every response it can give is a            *)
(* nondeterministic choice.  Each await of the code is a point where the   *)
(* handler is suspended; one action runs the code from one such point to   *)
(* the next.  A promise's continuation runs in the microtask that follows  *)
(* its resolution, so the return of createMediaStream and the rest of      *)
(* startCapture are one step.                                              *)
(*                                                                         *)
(* Text is modelled as a sequence of one-character strings, so that        *)
(* split, trim and includes are computed and not assumed.  The width,      *)
(* height and frame rate are passed through to the host unchanged as       *)
(* ideal hints and decide nothing in the code; they are left out.          *)
(***************************************************************************)
EXTENDS Naturals, Sequences, FiniteSets, TLC

VARIABLES
    hostDevices,     \* what navigator.mediaDevices.enumerateDevices reports
    mountPc,         \* position of the onMount callback
    videoDevices,    \* part_000:5
    selectedDevice,  \* part_000:6
    captureAudio,    \* part_000:9
    isCapturing,     \* part_000:10
    videoElement,    \* part_000:11 (bind:this)
    stream,          \* part_000:12
    destroyed,       \* the component was destroyed (onDestroy ran)
    nCalls,          \* startCapture invocations so far
    calls,           \* per startCapture invocation: its createMediaStream call
    streams,         \* per invocation: the tracks of its videoStream object
    readyState,      \* MediaStreamTrack.readyState of every track created
    timers,          \* invocations whose setTimeout callback is pending
    surface,         \* the <video> element
    stopLog          \* history: the stopMediaStream calls made

vars == <<hostDevices, mountPc, videoDevices, selectedDevice, captureAudio,
          isCapturing, videoElement, stream, destroyed, nCalls, calls,
          streams, readyState, timers, surface, stopLog>>

(***************************************************************************)
(* Bounds                                                                  *)
(***************************************************************************)
\* startCapture invocations in one run
MaxCalls == 2
\* audio tracks the host puts in one audio or display stream
MaxAudioTracks == 2
\* devices in one list reported by the host
MaxDevices == 3
\* stopMediaStream calls applied in a row (SpecStop)
MaxStops == 3

Calls == 1..MaxCalls

Range(s) == {s[k] : k \in DOMAIN s}

(***************************************************************************)
(* Text                                                                    *)
(***************************************************************************)
\* String.prototype.includes
Includes(s, sub) ==
    \E k \in 0..Len(s) :
        /\ k + Len(sub) <= Len(s)
        /\ SubSeq(s, k + 1, k + Len(sub)) = sub

\* label.split('(')[0]
SplitParen(s) ==
    IF \E k \in DOMAIN s : s[k] = "("
    THEN SubSeq(s, 1, (CHOOSE k \in DOMAIN s :
                          /\ s[k] = "("
                          /\ \A j \in 1..(k - 1) : s[j] # "(") - 1)
    ELSE s

\* String.prototype.trim
RECURSIVE Trim(_)
Trim(s) ==
    IF s = <<>> THEN s
    ELSE IF Head(s) = " " THEN Trim(Tail(s))
    ELSE IF s[Len(s)] = " " THEN Trim(SubSeq(s, 1, Len(s) - 1))
    ELSE s

(***************************************************************************)
(* Device descriptors                                                      *)
(***************************************************************************)
Dev(id, kind, label) == [deviceId |-> id, kind |-> kind, label |-> label]

LabelVideo == <<"C", "C", " ", "(", "V", ")">>
LabelAudio == <<"C", "C", " ", "(", "A", ")">>
LabelOut   == <<"C", "C", " ", "(", "O", ")">>
LabelMic   == <<"M">>

CamCard  == Dev("cam1", "videoinput", LabelVideo)
CamPlain == Dev("cam2", "videoinput", <<>>)
MicCard  == Dev("mic1", "audioinput", LabelAudio)
MicSame  == Dev("cam1", "audioinput", LabelMic)
MicOther == Dev("mic2", "audioinput", LabelMic)
Speaker  == Dev("spk1", "audiooutput", LabelOut)

Devices == {CamCard, CamPlain, MicCard, MicSame, MicOther, Speaker}

\* Devices for the label heuristic: a video input whose label starts with
\* its parenthesis, and an audio input without a label.
CamBare  == Dev("cam3", "videoinput", <<" ", "(", "V", ")">>)
MicBlank == Dev("mic3", "audioinput", <<>>)

LabelDevices == {CamCard, CamPlain, CamBare, MicCard, MicOther, MicBlank}

\* Every list of at most MaxDevices distinct devices of LabelDevices.
LabelInventories ==
    {s \in UNION {[1..n -> LabelDevices] : n \in 0..MaxDevices} :
        \A j, k \in DOMAIN s : j # k => s[j] # s[k]}

\* Every list of at most MaxDevices distinct devices, in every order.
AllInventories ==
    {s \in UNION {[1..n -> Devices] : n \in 0..MaxDevices} :
        \A j, k \in DOMAIN s : j # k => s[j] # s[k]}

\* The device lists the host reports in the runs of the whole page.
Inventories ==
    { <<>>,
      <<CamCard>>,
      <<CamCard, Speaker, MicCard>>,
      <<MicCard, MicSame, CamCard>>,
      <<MicSame, CamCard, MicCard>>,
      <<MicOther, CamPlain, CamCard>>,
      <<CamPlain, MicCard, Speaker>> }

NoDevice == ""
NoStream == 0
NoElement == "none"
TheElement == "video"

\* The errors a rejected getUserMedia carries.
HostErrors == {"NotAllowedError", "NotFoundError"}

(***************************************************************************)
(* videoUtils.ts                                                           *)
(***************************************************************************)
\* Mutant: everything that is not an audio input is taken for a video input.
GetVideoDevicesNotAudio(ok, devices) ==
    IF ok THEN SelectSeq(devices, LAMBDA d : d.kind # "audioinput")
    ELSE <<>>

\* getVideoDevices, where ok says whether enumerateDevices resolved (with
\* devices) or rejected: the filtered list, or [] from the catch.
GetVideoDevices(ok, devices) ==
    IF ok THEN SelectSeq(devices, LAMBDA d : d.kind = "videoinput")
    ELSE <<>>

\* Mutant: no catch, the list is filtered whether or not the host answered.
GetAudioDevicesNoCatch(ok, devices) ==
    SelectSeq(devices, LAMBDA d : d.kind = "audioinput")

\* getAudioDevices, likewise.
GetAudioDevices(ok, devices) ==
    IF ok THEN SelectSeq(devices, LAMBDA d : d.kind = "audioinput")
    ELSE <<>>

\* The host requests the code issues.
VideoRequest(deviceId) ==
    [api |-> "getUserMedia", video |-> TRUE, audio |-> FALSE,
     deviceId |-> deviceId, echoCancellation |-> "unset",
     noiseSuppression |-> "unset", autoGainControl |-> "unset"]

EnumerateRequest ==
    [api |-> "enumerateDevices", video |-> FALSE, audio |-> FALSE,
     deviceId |-> NoDevice, echoCancellation |-> "unset",
     noiseSuppression |-> "unset", autoGainControl |-> "unset"]

DisplayRequest ==
    [api |-> "getDisplayMedia", video |-> FALSE, audio |-> TRUE,
     deviceId |-> NoDevice, echoCancellation |-> "unset",
     noiseSuppression |-> "unset", autoGainControl |-> "unset"]

AudioRequest(audioDevice) ==
    [api |-> "getUserMedia", video |-> FALSE, audio |-> TRUE,
     deviceId |-> audioDevice.deviceId, echoCancellation |-> "false",
     noiseSuppression |-> "false", autoGainControl |-> "false"]

\* Mutant: the whole label of the video device is looked for, not the part
\* before its parenthesis.
AudioMatchesWholeLabel(ad, videoDevs, deviceId) ==
    \/ ad.deviceId = deviceId
    \/ /\ ad.label # <<>>
       /\ \E k \in DOMAIN videoDevs :
            /\ videoDevs[k].deviceId = deviceId
            /\ videoDevs[k].label # <<>>
            /\ Includes(ad.label, videoDevs[k].label)

\* The predicate of audioDevices.find
AudioMatches(ad, videoDevs, deviceId) ==
    \/ ad.deviceId = deviceId
    \/ /\ ad.label # <<>>
       /\ \E k \in DOMAIN videoDevs :
            /\ videoDevs[k].deviceId = deviceId
            /\ videoDevs[k].label # <<>>
            /\ Includes(ad.label, Trim(SplitParen(videoDevs[k].label)))

\* audioDevices.find(...): the first element the predicate accepts, as a
\* sequence of one device, or <<>> for undefined.
\* Mutant: only the id is compared, the labels are not looked at.
FindAudioDeviceIdOnly(audioDevs, videoDevs, deviceId) ==
    LET hits == {k \in DOMAIN audioDevs : audioDevs[k].deviceId = deviceId}
    IN  IF hits = {} THEN <<>>
        ELSE <<audioDevs[CHOOSE k \in hits : \A j \in hits : k <= j]>>

FindAudioDevice(audioDevs, videoDevs, deviceId) ==
    LET hits == {k \in DOMAIN audioDevs :
                    AudioMatches(audioDevs[k], videoDevs, deviceId)}
    IN  IF hits = {} THEN <<>>
        ELSE <<audioDevs[CHOOSE k \in hits : \A j \in hits : k <= j]>>

\* Mutant: the audio flag is not looked at, audio is always tried.
ReturnsVideoOnlyNever(audio) == FALSE

\* if (!audio) return videoStream
ReturnsVideoOnly(audio) == ~audio

\* Mutant: getVideoTracks() instead of getTracks().
TracksToStopVideoOnly(tracks) == {t \in Range(tracks) : t.kind = "video"}

\* stream.getTracks() of stopMediaStream
TracksToStop(tracks) == Range(tracks)

\* Mutant: no check for an absent stream, so null.getTracks() throws.
StopMediaStreamNoGuard(s, strs, rs) ==
    IF s = NoStream
    THEN [readyState |-> rs, threw |-> TRUE]
    ELSE [readyState |-> [t \in DOMAIN rs |->
                             IF t \in TracksToStop(strs[s]) THEN "ended"
                             ELSE rs[t]],
          threw |-> FALSE]

\* stopMediaStream(stream): the readyState of every track afterwards, and
\* whether the call threw.
StopMediaStream(s, strs, rs) ==
    IF s = NoStream
    THEN [readyState |-> rs, threw |-> FALSE]
    ELSE [readyState |-> [t \in DOMAIN rs |->
                             IF t \in TracksToStop(strs[s]) THEN "ended"
                             ELSE rs[t]],
          threw |-> FALSE]

Track(i, kind, n) == [call |-> i, kind |-> kind, n |-> n]

\* The n audio tracks of the audio source acquired by invocation i.
AudioTracks(i, n) == [k \in 1..n |-> Track(i, "audio", k)]

\* Every track the host can create within the bounds.
AllTracks ==
    {Track(i, "video", 1) : i \in Calls}
        \cup {Track(i, "audio", n) : i \in Calls, n \in 1..MaxAudioTracks}

\* The tracks of a new host stream start live.
Created(rs, tracks) ==
    [t \in DOMAIN rs |-> IF t \in Range(tracks) THEN "live" ELSE rs[t]]

\* Mutant: only the first audio track is added.
AddTracksFirstOnly(tracks, added) ==
    IF added = <<>> THEN tracks ELSE Append(tracks, added[1])

\* videoStream.addTrack(track) for each of the tracks
AddTracks(tracks, added) == tracks \o added

IdleCall ==
    [pc |-> "idle", deviceId |-> NoDevice, audio |-> FALSE,
     requests |-> <<>>, videoOutcome |-> "none",
     audioEnum |-> "none", audioDevices |-> <<>>,
     videoEnum |-> "none", videoDevs |-> <<>>,
     audioDevice |-> <<>>, audioPath |-> "none", audioOutcome |-> "none",
     result |-> "none", error |-> "", returned |-> <<>>,
     liveAtReturn |-> {}, alert |-> ""]

\* The component right after construction: onMount has not run yet.
Constructed ==
    /\ mountPc = "start"
    /\ videoDevices = <<>>
    /\ selectedDevice = NoDevice
    /\ captureAudio = FALSE
    /\ isCapturing = FALSE
    /\ videoElement = NoElement
    /\ stream = NoStream
    /\ destroyed = FALSE
    /\ nCalls = 0
    /\ calls = [i \in Calls |-> IdleCall]
    /\ timers = {}
    /\ surface = [srcObject |-> NoStream, onloadedmetadata |-> FALSE,
                  loading |-> FALSE, playPending |-> 0, playErrors |-> 0]
    /\ stopLog = <<>>

\* No stream has been acquired yet.
NoTracks ==
    /\ streams = [i \in Calls |-> <<>>]
    /\ readyState = [t \in AllTracks |-> "none"]

Init ==
    /\ hostDevices \in Inventories
    /\ Constructed
    /\ NoTracks

(***************************************************************************)
(* part_000: onMount                                                       *)
(***************************************************************************)
\* onMount starts: without the media devices API it returns at once,
\* otherwise it asks for permission with a first getUserMedia.
OnMount ==
    /\ mountPc = "start"
    /\ mountPc' \in {"unsupported", "perm"}
    /\ UNCHANGED <<hostDevices, videoDevices, selectedDevice, captureAudio,
                   isCapturing, videoElement, stream, destroyed, nCalls,
                   calls, streams, readyState, timers, surface, stopLog>>

\* The permission request answers.  Granted: the tracks of initialStream
\* are stopped in the same step (they are never seen live) and
\* getVideoDevices is called.  Refused: the catch logs the error.
MountPermission ==
    /\ mountPc = "perm"
    /\ mountPc' \in {"enum", "denied"}
    /\ UNCHANGED <<hostDevices, videoDevices, selectedDevice, captureAudio,
                   isCapturing, videoElement, stream, destroyed, nCalls,
                   calls, streams, readyState, timers, surface, stopLog>>

\* enumerateDevices of getVideoDevices answers: the list is filtered, or on
\* failure getVideoDevices returns []; the first device becomes selected.
MountEnumerate ==
    /\ mountPc = "enum"
    /\ \E ok \in BOOLEAN :
          LET found == GetVideoDevices(ok, hostDevices)
          IN  /\ mountPc' = IF ok THEN "listed" ELSE "empty"
              /\ videoDevices' = found
              /\ selectedDevice' = IF Len(found) > 0 THEN found[1].deviceId
                                   ELSE selectedDevice
    /\ UNCHANGED <<hostDevices, captureAudio, isCapturing, videoElement,
                   stream, destroyed, nCalls, calls, streams, readyState,
                   timers, surface, stopLog>>

(***************************************************************************)
(* part_000: the menu, shown while !isCapturing                            *)
(***************************************************************************)
MenuShown == ~isCapturing /\ ~destroyed

\* <select bind:value={selectedDevice}>: one option per video device
SelectDevice ==
    /\ MenuShown
    /\ \E k \in DOMAIN videoDevices :
          /\ selectedDevice # videoDevices[k].deviceId
          /\ selectedDevice' = videoDevices[k].deviceId
    /\ UNCHANGED <<hostDevices, mountPc, videoDevices, captureAudio,
                   isCapturing, videoElement, stream, destroyed, nCalls,
                   calls, streams, readyState, timers, surface, stopLog>>

\* <input type="checkbox" bind:checked={captureAudio}>
ToggleAudio ==
    /\ MenuShown
    /\ captureAudio' = ~captureAudio
    /\ UNCHANGED <<hostDevices, mountPc, videoDevices, selectedDevice,
                   isCapturing, videoElement, stream, destroyed, nCalls,
                   calls, streams, readyState, timers, surface, stopLog>>

(***************************************************************************)
(* part_000: startCapture, with the createMediaStream call it makes        *)
(***************************************************************************)
\* The button is clicked: startCapture runs to its first await.
StartCapture ==
    /\ MenuShown
    /\ nCalls < MaxCalls
    /\ nCalls' = nCalls + 1
    /\ LET i == nCalls + 1
           stopped == StopMediaStream(stream, streams, readyState)
           entry == [stream |-> stream, threw |-> stopped.threw]
       IN  IF selectedDevice = NoDevice
           THEN /\ calls' = [calls EXCEPT ![i] =
                        [@ EXCEPT !.pc = "done", !.alert = "select"]]
                /\ UNCHANGED <<readyState, stopLog>>
           ELSE /\ readyState' = IF stream # NoStream
                                 THEN stopped.readyState ELSE readyState
                /\ stopLog' = IF stream # NoStream
                              THEN Append(stopLog, entry) ELSE stopLog
                /\ calls' = [calls EXCEPT ![i] =
                        [@ EXCEPT !.pc = "video",
                                  !.deviceId = selectedDevice,
                                  !.audio = captureAudio,
                                  !.requests = <<VideoRequest(selectedDevice)>>]]
    /\ UNCHANGED <<hostDevices, mountPc, videoDevices, selectedDevice,
                   captureAudio, isCapturing, videoElement, stream,
                   destroyed, streams, timers, surface>>

\* createMediaStream returns videoStream and startCapture goes on after its
\* await: the stream is kept, the page switches to the video and the timer
\* is set.  The <video> is rendered, and bound to videoElement, only while
\* the component is alive.
Resolve(i, c, tracks, rs) ==
    /\ calls' = [calls EXCEPT ![i] =
            [c EXCEPT !.pc = "done", !.result = "resolved",
                      !.returned = tracks,
                      !.liveAtReturn = {t \in Range(tracks) : rs[t] = "live"}]]
    /\ streams' = [streams EXCEPT ![i] = tracks]
    /\ readyState' = rs
    /\ stream' = i
    /\ isCapturing' = TRUE
    /\ videoElement' = IF destroyed THEN videoElement ELSE TheElement
    /\ timers' = timers \cup {i}

\* The initial video-only getUserMedia resolves.
VideoResolves(i) ==
    /\ calls[i].pc = "video"
    /\ LET tracks == <<Track(i, "video", 1)>>
           rs == Created(readyState, tracks)
           c == [calls[i] EXCEPT !.videoOutcome = "ok"]
       IN  IF ReturnsVideoOnly(c.audio)
           THEN Resolve(i, c, tracks, rs)
           ELSE /\ calls' = [calls EXCEPT ![i] =
                        [c EXCEPT !.pc = "audioEnum",
                                  !.requests = Append(@, EnumerateRequest)]]
                /\ streams' = [streams EXCEPT ![i] = tracks]
                /\ readyState' = rs
                /\ UNCHANGED <<stream, isCapturing, videoElement, timers>>
    /\ UNCHANGED <<hostDevices, mountPc, videoDevices, selectedDevice,
                   captureAudio, destroyed, nCalls, surface, stopLog>>

\* Mutant: the catch of startCapture reports the error and asks for the
\* video once more.
RejectRetries(i, c, e) ==
    calls' = [calls EXCEPT ![i] =
        IF Len(c.requests) < 2
        THEN [c EXCEPT !.pc = "video", !.videoOutcome = "none", !.alert = e,
                       !.requests = Append(@, VideoRequest(c.deviceId))]
        ELSE [c EXCEPT !.pc = "done", !.result = "rejected", !.error = e,
                       !.alert = e]]

\* Where createMediaStream rejects: the await in startCapture throws and
\* its catch reports the error.
Reject(i, c, e) ==
    calls' = [calls EXCEPT ![i] =
        [c EXCEPT !.pc = "done", !.result = "rejected", !.error = e,
                  !.alert = e]]

\* Mutant: isCapturing is set before the await, so a rejected call leaves
\* the page on the video view.
VideoRejectsWhileCapturing(i) ==
    /\ calls[i].pc = "video"
    /\ \E e \in HostErrors :
          Reject(i, [calls[i] EXCEPT !.videoOutcome = e], e)
    /\ isCapturing' = TRUE
    /\ UNCHANGED <<hostDevices, mountPc, videoDevices, selectedDevice,
                   captureAudio, videoElement, stream, destroyed, nCalls,
                   streams, readyState, timers, surface, stopLog>>

\* The initial video-only getUserMedia rejects.
VideoRejects(i) ==
    /\ calls[i].pc = "video"
    /\ \E e \in HostErrors :
          Reject(i, [calls[i] EXCEPT !.videoOutcome = e], e)
    /\ UNCHANGED <<hostDevices, mountPc, videoDevices, selectedDevice,
                   captureAudio, isCapturing, videoElement, stream,
                   destroyed, nCalls, streams, readyState, timers, surface,
                   stopLog>>

\* Mutant: the catch rethrows, so an audio failure fails the whole call.
AudioFailureRethrows(i, c) ==
    /\ Reject(i, [c EXCEPT !.audioOutcome = "failed"], "AudioError")
    /\ UNCHANGED <<streams, readyState, stream, isCapturing, videoElement,
                   timers>>

\* Mutant: the catch releases videoStream before returning it.
AudioFailureStopsVideo(i, c) ==
    Resolve(i, [c EXCEPT !.audioOutcome = "failed"], streams[i],
            [t \in DOMAIN readyState |->
                IF t \in Range(streams[i]) THEN "ended" ELSE readyState[t]])

\* catch (error) of createMediaStream: the error is logged and videoStream
\* is returned as it is.
AudioFailure(i, c) ==
    Resolve(i, [c EXCEPT !.audioOutcome = "failed"], streams[i], readyState)

\* An audio source was acquired: its audio tracks are added to videoStream,
\* which is returned.
AudioMerged(i, c, audioTracks) ==
    Resolve(i, [c EXCEPT !.audioOutcome = "ok"],
            AddTracks(streams[i], audioTracks),
            Created(readyState, audioTracks))

\* enumerateDevices of getAudioDevices answers (a failure gives []), and
\* getVideoDevices is called.
AudioEnumResponds(i) ==
    /\ calls[i].pc = "audioEnum"
    /\ \E ok \in BOOLEAN :
          calls' = [calls EXCEPT ![i] =
              [@ EXCEPT !.pc = "videoEnum",
                        !.audioEnum = IF ok THEN "ok" ELSE "failed",
                        !.audioDevices = GetAudioDevices(ok, hostDevices),
                        !.requests = Append(@, EnumerateRequest)]]
    /\ UNCHANGED <<hostDevices, mountPc, videoDevices, selectedDevice,
                   captureAudio, isCapturing, videoElement, stream,
                   destroyed, nCalls, streams, readyState, timers, surface,
                   stopLog>>

\* enumerateDevices of getVideoDevices answers (a failure gives []); the
\* audio device is looked for, and the display capture or the device's
\* audio is requested.
VideoEnumResponds(i) ==
    /\ calls[i].pc = "videoEnum"
    /\ \E ok \in BOOLEAN :
          LET videoDevs == GetVideoDevices(ok, hostDevices)
              audioDevice == FindAudioDevice(calls[i].audioDevices, videoDevs,
                                             calls[i].deviceId)
              c == [calls[i] EXCEPT
                        !.videoEnum = IF ok THEN "ok" ELSE "failed",
                        !.videoDevs = videoDevs,
                        !.audioDevice = audioDevice]
          IN  calls' = [calls EXCEPT ![i] =
                  IF audioDevice = <<>>
                  THEN [c EXCEPT !.pc = "display", !.audioPath = "display",
                                 !.requests = Append(@, DisplayRequest)]
                  ELSE [c EXCEPT !.pc = "audio", !.audioPath = "device",
                                 !.requests =
                                     Append(@, AudioRequest(audioDevice[1]))]]
    /\ UNCHANGED <<hostDevices, mountPc, videoDevices, selectedDevice,
                   captureAudio, isCapturing, videoElement, stream,
                   destroyed, nCalls, streams, readyState, timers, surface,
                   stopLog>>

\* getDisplayMedia resolves, with any number of audio tracks.
DisplayResolves(i) ==
    /\ calls[i].pc = "display"
    /\ \E n \in 0..MaxAudioTracks : AudioMerged(i, calls[i], AudioTracks(i, n))
    /\ UNCHANGED <<hostDevices, mountPc, videoDevices, selectedDevice,
                   captureAudio, destroyed, nCalls, surface, stopLog>>

\* getDisplayMedia rejects.
DisplayRejects(i) ==
    /\ calls[i].pc = "display"
    /\ AudioFailure(i, calls[i])
    /\ UNCHANGED <<hostDevices, mountPc, videoDevices, selectedDevice,
                   captureAudio, destroyed, nCalls, surface, stopLog>>

\* The audio getUserMedia resolves, with at least one audio track.
AudioResolves(i) ==
    /\ calls[i].pc = "audio"
    /\ \E n \in 1..MaxAudioTracks : AudioMerged(i, calls[i], AudioTracks(i, n))
    /\ UNCHANGED <<hostDevices, mountPc, videoDevices, selectedDevice,
                   captureAudio, destroyed, nCalls, surface, stopLog>>

\* The audio getUserMedia rejects.
AudioRejects(i) ==
    /\ calls[i].pc = "audio"
    /\ AudioFailure(i, calls[i])
    /\ UNCHANGED <<hostDevices, mountPc, videoDevices, selectedDevice,
                   captureAudio, destroyed, nCalls, surface, stopLog>>

(***************************************************************************)
(* The delayed callback, applyStreamToVideo and the <video> element        *)
(***************************************************************************)
\* Mutant: play() is called right after the attachment, with no handler.
ApplyStreamToVideoPlaysAtOnce(element, s, el) ==
    IF element = NoElement \/ s = NoStream
    THEN el
    ELSE [el EXCEPT !.srcObject = s, !.loading = TRUE,
                    !.playPending = @ + 1]

\* applyStreamToVideo(videoElement, stream)
ApplyStreamToVideo(element, s, el) ==
    IF element = NoElement \/ s = NoStream
    THEN el
    ELSE [el EXCEPT !.srcObject = s, !.onloadedmetadata = TRUE,
                    !.loading = TRUE]

\* Mutant: the callback attaches the stream its own invocation acquired,
\* not the one held in stream when it runs.
TimerFiresCaptured(i) ==
    /\ i \in timers
    /\ timers' = timers \ {i}
    /\ surface' = IF videoElement # NoElement
                  THEN ApplyStreamToVideo(videoElement, i, surface)
                  ELSE surface
    /\ UNCHANGED <<hostDevices, mountPc, videoDevices, selectedDevice,
                   captureAudio, isCapturing, videoElement, stream,
                   destroyed, nCalls, calls, streams, readyState, stopLog>>

\* The callback of setTimeout(..., 100) runs: it reads videoElement and
\* stream as they are now.
TimerFires(i) ==
    /\ i \in timers
    /\ timers' = timers \ {i}
    /\ surface' = IF videoElement # NoElement /\ stream # NoStream
                  THEN ApplyStreamToVideo(videoElement, stream, surface)
                  ELSE surface
    /\ UNCHANGED <<hostDevices, mountPc, videoDevices, selectedDevice,
                   captureAudio, isCapturing, videoElement, stream,
                   destroyed, nCalls, calls, streams, readyState, stopLog>>

\* The element reports its metadata; the handler calls play().
LoadedMetadata ==
    /\ surface.loading
    /\ surface' = IF surface.onloadedmetadata
                  THEN [surface EXCEPT !.loading = FALSE,
                                       !.playPending = @ + 1]
                  ELSE [surface EXCEPT !.loading = FALSE]
    /\ UNCHANGED <<hostDevices, mountPc, videoDevices, selectedDevice,
                   captureAudio, isCapturing, videoElement, stream,
                   destroyed, nCalls, calls, streams, readyState, timers,
                   stopLog>>

\* A play() promise resolves.
PlayResolves ==
    /\ surface.playPending > 0
    /\ surface' = [surface EXCEPT !.playPending = @ - 1]
    /\ UNCHANGED <<hostDevices, mountPc, videoDevices, selectedDevice,
                   captureAudio, isCapturing, videoElement, stream,
                   destroyed, nCalls, calls, streams, readyState, timers,
                   stopLog>>

\* Mutant: the catch detaches the stream from the element.
PlayRejectsDetaches ==
    /\ surface.playPending > 0
    /\ surface' = [surface EXCEPT !.playPending = @ - 1,
                                  !.playErrors = @ + 1,
                                  !.srcObject = NoStream]
    /\ UNCHANGED <<hostDevices, mountPc, videoDevices, selectedDevice,
                   captureAudio, isCapturing, videoElement, stream,
                   destroyed, nCalls, calls, streams, readyState, timers,
                   stopLog>>

\* A play() promise rejects: the catch logs the error.
PlayRejects ==
    /\ surface.playPending > 0
    /\ surface' = [surface EXCEPT !.playPending = @ - 1,
                                  !.playErrors = @ + 1]
    /\ UNCHANGED <<hostDevices, mountPc, videoDevices, selectedDevice,
                   captureAudio, isCapturing, videoElement, stream,
                   destroyed, nCalls, calls, streams, readyState, timers,
                   stopLog>>

(***************************************************************************)
(* part_000: onDestroy                                                     *)
(***************************************************************************)
\* The component is destroyed: onDestroy stops the stream held, and the
\* framework unbinds videoElement (bind:this).
OnDestroy ==
    /\ ~destroyed
    /\ destroyed' = TRUE
    /\ LET stopped == StopMediaStream(stream, streams, readyState)
           entry == [stream |-> stream, threw |-> stopped.threw]
       IN  /\ readyState' = IF stream # NoStream THEN stopped.readyState
                            ELSE readyState
           /\ stopLog' = IF stream # NoStream THEN Append(stopLog, entry)
                         ELSE stopLog
    /\ videoElement' = NoElement
    /\ UNCHANGED <<hostDevices, mountPc, videoDevices, selectedDevice,
                   captureAudio, isCapturing, stream, nCalls, calls,
                   streams, timers, surface>>

Next ==
    \/ OnMount
    \/ MountPermission
    \/ MountEnumerate
    \/ SelectDevice
    \/ ToggleAudio
    \/ StartCapture
    \/ \E i \in Calls : VideoResolves(i)
    \/ \E i \in Calls : VideoRejects(i)
    \/ \E i \in Calls : AudioEnumResponds(i)
    \/ \E i \in Calls : VideoEnumResponds(i)
    \/ \E i \in Calls : DisplayResolves(i)
    \/ \E i \in Calls : DisplayRejects(i)
    \/ \E i \in Calls : AudioResolves(i)
    \/ \E i \in Calls : AudioRejects(i)
    \/ \E i \in Calls : TimerFires(i)
    \/ LoadedMetadata
    \/ PlayResolves
    \/ PlayRejects
    \/ OnDestroy

Spec == Init /\ [][Next]_vars

(***************************************************************************)
(* One capture, over every device list: the page as above, with the host   *)
(* reporting any list of AllInventories and the button clicked once.       *)
(***************************************************************************)
InitAcquire ==
    /\ hostDevices \in AllInventories
    /\ Constructed
    /\ NoTracks

StartCaptureOnce == nCalls = 0 /\ StartCapture

NextAcquire ==
    \/ OnMount
    \/ MountPermission
    \/ MountEnumerate
    \/ SelectDevice
    \/ ToggleAudio
    \/ StartCaptureOnce
    \/ \E i \in Calls : VideoResolves(i)
    \/ \E i \in Calls : VideoRejects(i)
    \/ \E i \in Calls : AudioEnumResponds(i)
    \/ \E i \in Calls : VideoEnumResponds(i)
    \/ \E i \in Calls : DisplayResolves(i)
    \/ \E i \in Calls : DisplayRejects(i)
    \/ \E i \in Calls : AudioResolves(i)
    \/ \E i \in Calls : AudioRejects(i)
    \/ \E i \in Calls : TimerFires(i)
    \/ LoadedMetadata
    \/ PlayResolves
    \/ PlayRejects
    \/ OnDestroy

SpecAcquire == InitAcquire /\ [][NextAcquire]_vars

(***************************************************************************)
(* One capture, over the device lists of the label heuristic.              *)
(***************************************************************************)
InitPairing ==
    /\ hostDevices \in LabelInventories
    /\ Constructed
    /\ NoTracks

SpecPairing == InitPairing /\ [][NextAcquire]_vars

(***************************************************************************)
(* The page with the audio checkbox left unchecked: up to MaxCalls clicks, *)
(* each call of createMediaStream making its video request only.           *)
(***************************************************************************)
NextVideoOnly ==
    \/ OnMount
    \/ MountPermission
    \/ MountEnumerate
    \/ SelectDevice
    \/ StartCapture
    \/ \E i \in Calls : VideoResolves(i)
    \/ \E i \in Calls : VideoRejects(i)
    \/ \E i \in Calls : TimerFires(i)
    \/ LoadedMetadata
    \/ PlayResolves
    \/ PlayRejects
    \/ OnDestroy

SpecVideoOnly == Init /\ [][NextVideoOnly]_vars

(***************************************************************************)
(* stopMediaStream on its own: applied, several times in a row, to null    *)
(* and to streams whose tracks are in any state.                           *)
(***************************************************************************)
\* The track lists a videoStream of invocation i can have.
StreamShapes(i) ==
    {<<>>} \cup {<<Track(i, "video", 1)>> \o AudioTracks(i, n) :
                    n \in 0..MaxAudioTracks}

InitStop ==
    /\ hostDevices = <<>>
    /\ Constructed
    /\ streams \in {f \in [Calls -> UNION {StreamShapes(i) : i \in Calls}] :
                        \A i \in Calls : f[i] \in StreamShapes(i)}
    /\ \E ended \in SUBSET UNION {Range(streams[i]) : i \in Calls} :
          readyState = [t \in AllTracks |->
                           IF t \notin Range(streams[t.call]) THEN "none"
                           ELSE IF t \in ended THEN "ended" ELSE "live"]

\* stopMediaStream(s) is called, with null or with any stream.
StopCall ==
    /\ Len(stopLog) < MaxStops
    /\ \E s \in {NoStream} \cup Calls :
          LET stopped == StopMediaStream(s, streams, readyState)
          IN  /\ readyState' = stopped.readyState
              /\ stopLog' = Append(stopLog,
                                   [stream |-> s, threw |-> stopped.threw])
    /\ UNCHANGED <<hostDevices, mountPc, videoDevices, selectedDevice,
                   captureAudio, isCapturing, videoElement, stream,
                   destroyed, nCalls, calls, streams, timers, surface>>

NextStop == StopCall

SpecStop == InitStop /\ [][NextStop]_vars

(***************************************************************************)
(* Properties                                                              *)
(***************************************************************************)
\* Invocation i's createMediaStream call handed its stream to startCapture.
Acquired(i) == calls[i].result = "resolved"

\* Invocation i's createMediaStream call is between its first request and
\* its return.
InFlight(i) == calls[i].pc \notin {"idle", "done"}

HasLiveTrack(i) == \E t \in Range(streams[i]) : readyState[t] = "live"

AllStopped(i) == \A t \in Range(streams[i]) : readyState[t] = "ended"

\* Nothing is pending any more: no host response, no timer, no event.
Quiescent ==
    /\ mountPc \in {"unsupported", "denied", "listed", "empty"}
    /\ \A i \in Calls : ~InFlight(i)
    /\ timers = {}
    /\ ~surface.loading
    /\ surface.playPending = 0

\* C1: no two streams that startCapture acquired have a live track at the
\* same time (a new capture releases the previous stream first).
C1_OneLiveStream ==
    \A i, j \in Calls :
        (i # j /\ Acquired(i) /\ Acquired(j))
            => ~(HasLiveTrack(i) /\ HasLiveTrack(j))

\* C2: startCapture never has two createMediaStream calls in flight.
C2_OneAcquisitionInFlight ==
    \A i, j \in Calls : (InFlight(i) /\ InFlight(j)) => i = j

\* C3: once the component is destroyed and nothing is pending, every track
\* of every stream startCapture acquired is stopped.
C3_TeardownStopsAll ==
    (destroyed /\ Quiescent) => \A i \in Calls : Acquired(i) => AllStopped(i)

\* C4: a createMediaStream call with audio=false issues the video-only
\* request and nothing else, and the stream it returns has no audio track.
C4_VideoOnly ==
    \A i \in Calls :
        (calls[i].requests # <<>> /\ ~calls[i].audio) =>
            /\ calls[i].requests = <<VideoRequest(calls[i].deviceId)>>
            /\ \A k \in DOMAIN calls[i].requests :
                  /\ calls[i].requests[k].api = "getUserMedia"
                  /\ calls[i].requests[k].video
                  /\ ~calls[i].requests[k].audio
            /\ \A t \in Range(streams[i]) \cup Range(calls[i].returned) :
                  t.kind = "video"

\* C4's case: a call with audio=false has returned its stream.
C4_Witness ==
    \E i \in Calls :
        /\ ~calls[i].audio
        /\ Acquired(i)
        /\ calls[i].returned = <<Track(i, "video", 1)>>

\* The audio-processing flags of a request are all switched off.
ProcessingOff(r) ==
    /\ r.echoCancellation = "false"
    /\ r.noiseSuppression = "false"
    /\ r.autoGainControl = "false"

\* Invocation i has chosen its audio source, and the audio inputs it was
\* given hold one whose id is the requested video device's.
HasIdMatch(i) ==
    /\ calls[i].audio
    /\ calls[i].audioPath # "none"
    /\ \E k \in DOMAIN calls[i].audioDevices :
          calls[i].audioDevices[k].deviceId = calls[i].deviceId

\* C5: whenever the audio inputs hold one with the requested video
\* device's id, the audio request names exactly that id, with the three
\* processing flags off, whatever the order and the labels of the list.
C5_ExactIdFirst ==
    \A i \in Calls :
        HasIdMatch(i) =>
            LET r == calls[i].requests[Len(calls[i].requests)]
            IN  /\ r.api = "getUserMedia"
                /\ r.audio /\ ~r.video
                /\ r.deviceId = calls[i].deviceId
                /\ ProcessingOff(r)

\* The video tracks of what invocation i's call returned.
ReturnedVideo(i) == {t \in Range(calls[i].returned) : t.kind = "video"}

\* C6: after the video request succeeded, a call with audio=true never
\* rejects; it returns the video stream, its video tracks live, and when
\* the audio source failed (display capture denied with no device matched,
\* or the matched device's request failed) with no audio track.
C6_AudioBestEffort ==
    \A i \in Calls :
        (calls[i].audio /\ calls[i].videoOutcome = "ok") =>
            /\ calls[i].result # "rejected"
            /\ calls[i].pc = "done" =>
                  /\ calls[i].result = "resolved"
                  /\ calls[i].returned = streams[i]
                  /\ Track(i, "video", 1) \in ReturnedVideo(i)
                  /\ ReturnedVideo(i) \subseteq calls[i].liveAtReturn
                  /\ calls[i].audioOutcome = "failed" =>
                        calls[i].returned = <<Track(i, "video", 1)>>

\* C6's case: a call with audio=true was given audio inputs none of which
\* matched, display capture was denied, and the call returned.
C6_Witness ==
    \E i \in Calls :
        /\ Acquired(i) /\ calls[i].audio
        /\ calls[i].audioDevices # <<>> /\ calls[i].audioDevice = <<>>
        /\ calls[i].audioPath = "display"
        /\ calls[i].audioOutcome = "failed"

\* C7: a call rejects exactly when its initial video request rejected;
\* then the host's error reaches the caller, which reports it, and the
\* video request is the only request the call issued.
C7_RejectsIffVideoRejects ==
    \A i \in Calls :
        /\ calls[i].result = "rejected" <=> calls[i].videoOutcome \in HostErrors
        /\ calls[i].result = "rejected" =>
              /\ calls[i].error = calls[i].videoOutcome
              /\ calls[i].alert = calls[i].error
              /\ calls[i].requests = <<VideoRequest(calls[i].deviceId)>>

\* C7's case: a call that was to capture audio rejected on its video
\* request, and the error was reported.
C7_Witness ==
    \E i \in Calls :
        /\ calls[i].result = "rejected" /\ calls[i].audio
        /\ calls[i].alert \in HostErrors

\* C8: after stopMediaStream(stream) returned, every track of the stream
\* is stopped, the audio tracks merged into it included.
C8_StopStopsAll ==
    \A k \in DOMAIN stopLog :
        stopLog[k].stream # NoStream =>
            \A t \in Range(streams[stopLog[k].stream]) :
                readyState[t] = "ended"

\* C8's case: stopMediaStream ran on a stream that holds audio tracks merged
\* into it from a paired device or from display capture.
C8_Witness ==
    \E k \in DOMAIN stopLog :
        stopLog[k].stream # NoStream /\
        LET i == stopLog[k].stream
        IN  /\ calls[i].audioPath \in {"device", "display"}
            /\ \E t \in Range(streams[i]) : t.kind = "audio"

\* The last stopMediaStream call made.
LastStop(log) == log[Len(log)]

\* C9: a stopMediaStream call on a stream it was already called on, or on
\* null, raises no error and changes no track's state nor anything else.
C9_StopIdempotent ==
    [][(Len(stopLog') = Len(stopLog) + 1 /\
        (\/ LastStop(stopLog').stream = NoStream
         \/ \E k \in DOMAIN stopLog :
               stopLog[k].stream = LastStop(stopLog').stream))
       => /\ ~LastStop(stopLog').threw
          /\ readyState' = readyState
          /\ UNCHANGED <<hostDevices, mountPc, videoDevices, selectedDevice,
                         captureAudio, isCapturing, videoElement, stream,
                         destroyed, nCalls, calls, streams, timers,
                         surface>>]_vars

\* C9's cases: stopMediaStream was called with null, and twice on one
\* stream that had a live track before the first of the two calls.
C9_Witness ==
    /\ Len(stopLog) = 3
    /\ stopLog[1].stream # NoStream
    /\ stopLog[2].stream = stopLog[1].stream
    /\ stopLog[3].stream = NoStream
    /\ Len(streams[stopLog[1].stream]) > 1
    /\ \E i \in Calls : HasLiveTrack(i)

\* The list got holds exactly the descriptors of the reported list whose
\* kind is the one asked for, and none of the other kind.
ExactlyOfKind(got, reported, kind, otherKind) ==
    /\ \A k \in DOMAIN got :
          /\ got[k].kind = kind
          /\ got[k].kind # otherKind
          /\ got[k] \in Range(reported)
    /\ \A k \in DOMAIN reported :
          reported[k].kind = kind => reported[k] \in Range(got)
    /\ Len(got) = Cardinality({k \in DOMAIN reported : reported[k].kind = kind})

\* C10: from every device list the host reports, getVideoDevices returns
\* exactly the video inputs and getAudioDevices exactly the audio inputs.
C10_FilterByKind ==
    /\ mountPc = "listed" =>
          ExactlyOfKind(videoDevices, hostDevices, "videoinput", "audioinput")
    /\ \A i \in Calls :
          /\ calls[i].audioEnum = "ok" =>
                ExactlyOfKind(calls[i].audioDevices, hostDevices,
                              "audioinput", "videoinput")
          /\ calls[i].videoEnum = "ok" =>
                ExactlyOfKind(calls[i].videoDevs, hostDevices,
                              "videoinput", "audioinput")

\* C10's case: both functions returned their part of a list that holds a
\* video input, an audio input and a device of a third kind.
C10_Witness ==
    /\ mountPc = "listed"
    /\ \E i \in Calls : calls[i].audioEnum = "ok" /\ calls[i].videoEnum = "ok"
    /\ {hostDevices[k].kind : k \in DOMAIN hostDevices}
          = {"videoinput", "audioinput", "audiooutput"}

\* C11: when the host's enumeration fails, getVideoDevices and
\* getAudioDevices give the empty list and their caller goes on as with no
\* device: onMount ends normally, createMediaStream goes on to the display
\* capture and does not reject.
C11_EnumerationFailsSoft ==
    /\ mountPc = "empty" => videoDevices = <<>>
    /\ \A i \in Calls :
          /\ calls[i].audioEnum = "failed" =>
                /\ calls[i].audioDevices = <<>>
                /\ calls[i].pc \in {"videoEnum", "display", "done"}
                /\ calls[i].audioPath \in {"none", "display"}
                /\ calls[i].result # "rejected"
          /\ calls[i].videoEnum = "failed" =>
                /\ calls[i].videoDevs = <<>>
                /\ calls[i].pc \in {"display", "audio", "done"}
                /\ calls[i].result # "rejected"

\* C11's case: both enumerations of a call failed while the host had audio
\* and video inputs, and the call returned its stream.
C11_Witness ==
    \E i \in Calls :
        /\ calls[i].audioEnum = "failed" /\ calls[i].videoEnum = "failed"
        /\ Acquired(i)
        /\ \E k \in DOMAIN hostDevices : hostDevices[k].kind = "audioinput"
        /\ \E k \in DOMAIN hostDevices : hostDevices[k].kind = "videoinput"

\* C12: play() is called only in a step where the element, with a stream
\* attached and the handler set, reports the metadata it has been loading
\* since the attachment; the step that attaches the stream calls no play().
C12_PlayAfterMetadata ==
    [][surface'.playPending > surface.playPending
       => /\ surface.srcObject # NoStream
          /\ surface.onloadedmetadata
          /\ surface.loading /\ ~surface'.loading
          /\ surface'.srcObject = surface.srcObject]_vars

\* C12's case: a stream is attached and play() has been called.
C12_Witness ==
    /\ surface.srcObject # NoStream
    /\ surface.onloadedmetadata
    /\ surface.playPending > 0

\* C13: the step in which a play() call fails changes nothing but the
\* element's pending play and its error log: the stream stays attached, no
\* track changes state (the tracks are live unless onDestroy stopped them)
\* and nothing is reported to the caller.
C13_PlayFailureNotPropagated ==
    [][surface'.playErrors > surface.playErrors
       => /\ surface.srcObject # NoStream
          /\ surface'.srcObject = surface.srcObject
          /\ surface'.onloadedmetadata = surface.onloadedmetadata
          /\ readyState' = readyState
          /\ ~destroyed => \A t \in Range(streams[surface.srcObject]) :
                               readyState'[t] = "live"
          /\ UNCHANGED <<calls, stream, isCapturing, videoElement, timers,
                         streams, stopLog>>]_vars

\* C13's case: a play() call failed on a live component.
C13_Witness ==
    /\ surface.playErrors > 0
    /\ surface.srcObject # NoStream
    /\ ~destroyed

\* The text of a label before its first parenthesis, without the spaces
\* around it.
LabelPrefix(label) ==
    LET parens == {k \in DOMAIN label : label[k] = "("}
        cut == IF parens = {} THEN Len(label)
               ELSE (CHOOSE k \in parens : \A j \in parens : k <= j) - 1
        inked == {k \in 1..cut : label[k] # " "}
    IN  IF inked = {} THEN <<>>
        ELSE SubSeq(label,
                    CHOOSE k \in inked : \A j \in inked : k <= j,
                    CHOOSE k \in inked : \A j \in inked : k >= j)

\* The text part occurs somewhere in the text whole.
Contains(whole, part) ==
    \E a, b \in 0..Len(whole) : a <= b /\ SubSeq(whole, a + 1, b) = part

\* Invocation i has chosen its audio source, and none of the audio inputs
\* it was given has the requested video device's id.
NoIdMatch(i) ==
    /\ calls[i].audio
    /\ calls[i].audioPath # "none"
    /\ \A k \in DOMAIN calls[i].audioDevices :
          calls[i].audioDevices[k].deviceId # calls[i].deviceId

\* The audio inputs given to invocation i whose label contains the label
\* prefix of the requested video device, as the video inputs list it.
PrefixMatches(i) ==
    {ad \in Range(calls[i].audioDevices) :
        \E vd \in Range(calls[i].videoDevs) :
            /\ vd.deviceId = calls[i].deviceId
            /\ Contains(ad.label, LabelPrefix(vd.label))}

\* The same, among the audio and video inputs that have a label at all.
LabelledPrefixMatches(i) ==
    {ad \in Range(calls[i].audioDevices) :
        /\ ad.label # <<>>
        /\ \E vd \in Range(calls[i].videoDevs) :
              /\ vd.deviceId = calls[i].deviceId
              /\ vd.label # <<>>
              /\ Contains(ad.label, LabelPrefix(vd.label))}

\* With no id match, the audio source chosen by invocation i is one of the
\* audio inputs of matches when there is any, and the display capture when
\* there is none.
SelectsAmong(i, matches) ==
    /\ matches # {} =>
          /\ calls[i].audioPath = "device"
          /\ calls[i].audioDevice # <<>>
          /\ calls[i].audioDevice[1] \in matches
          /\ calls[i].requests[Len(calls[i].requests)]
                = AudioRequest(calls[i].audioDevice[1])
    /\ matches = {} =>
          /\ calls[i].audioDevice = <<>>
          /\ calls[i].audioPath = "display"

\* C14 as stated: with no id match, an audio input whose label contains
\* the video device's label prefix is selected, and none whose label does
\* not contain it.
C14_LabelPrefixSelects ==
    \A i \in Calls : NoIdMatch(i) => SelectsAmong(i, PrefixMatches(i))

\* C14, amended: the same for the audio inputs that have a label, when the
\* video device has a label; an input or a video device without a label
\* takes no part in the heuristic.
C14_LabelledPrefixSelects ==
    \A i \in Calls : NoIdMatch(i) => SelectsAmong(i, LabelledPrefixMatches(i))

\* C14's scenario: the host lists the capture card's video and audio
\* inputs, the video input is requested and the audio input is selected.
C14_Witness ==
    /\ hostDevices = <<CamCard, MicCard>>
    /\ \E i \in Calls :
          /\ NoIdMatch(i)
          /\ calls[i].deviceId = "cam1"
          /\ calls[i].audioDevice = <<MicCard>>
          /\ calls[i].requests[Len(calls[i].requests)].deviceId = "mic1"

\* The audio inputs given to invocation i that have the requested video
\* device's id.
IdMatches(i) ==
    {ad \in Range(calls[i].audioDevices) : ad.deviceId = calls[i].deviceId}

\* The positions in the requests of invocation i of a request for audio:
\* the display capture, or getUserMedia with audio constraints.
AudioAcquisitions(i) ==
    {k \in DOMAIN calls[i].requests :
        /\ calls[i].requests[k].api \in {"getDisplayMedia", "getUserMedia"}
        /\ calls[i].requests[k].audio}

\* C15: a call with audio requests the display capture if and only if it
\* has looked for an audio input and none matches by id or by label; with a
\* match it requests that device's audio and no display capture; no call
\* makes more than one request for audio.
C15_DisplayIffNoMatch ==
    \A i \in Calls :
        LET matches == IdMatches(i) \cup LabelledPrefixMatches(i)
            sought == calls[i].audio /\ calls[i].audioPath # "none"
            display == {k \in AudioAcquisitions(i) :
                          calls[i].requests[k].api = "getDisplayMedia"}
            device == AudioAcquisitions(i) \ display
        IN  /\ display # {} <=> (sought /\ matches = {})
            /\ device # {} <=> (sought /\ matches # {})
            /\ \A k \in device :
                  \E ad \in matches :
                      calls[i].requests[k].deviceId = ad.deviceId
            /\ Cardinality(AudioAcquisitions(i)) <= 1

\* A call that found a match by label only has requested that device's
\* audio and has finished.
C15_Witness ==
    \E i \in Calls :
        /\ calls[i].pc = "done"
        /\ IdMatches(i) = {}
        /\ LabelledPrefixMatches(i) # {}
        /\ \E k \in AudioAcquisitions(i) :
              calls[i].requests[k].api = "getUserMedia"

\* The audio tracks the host created for the audio source of invocation i.
SourceAudioTracks(i) ==
    {t \in AllTracks :
        t.call = i /\ t.kind = "audio" /\ readyState[t] # "none"}

\* C16: when a call acquired an audio source, what it returns is the stream
\* of its video request, holding that stream's video track first and live,
\* then every audio track of the source, each once, and nothing else.
C16_MergeKeepsVideoAddsAudio ==
    \A i \in Calls :
        (Acquired(i) /\ calls[i].audioOutcome = "ok") =>
            /\ stream = i => streams[stream] = calls[i].returned
            /\ calls[i].returned # <<>>
            /\ calls[i].returned[1] = Track(i, "video", 1)
            /\ Range(calls[i].returned)
                  = {Track(i, "video", 1)} \cup SourceAudioTracks(i)
            /\ Len(calls[i].returned) = 1 + Cardinality(SourceAudioTracks(i))
            /\ Track(i, "video", 1) \in calls[i].liveAtReturn
            /\ SourceAudioTracks(i) \subseteq calls[i].liveAtReturn

\* A call has returned a stream with its video track and the two audio
\* tracks of the paired device.
C16_Witness ==
    \E i \in Calls :
        /\ Acquired(i)
        /\ calls[i].audioOutcome = "ok"
        /\ calls[i].audioPath = "device"
        /\ Cardinality(SourceAudioTracks(i)) = 2
        /\ Len(calls[i].returned) = 3

\* The positions in a list of requests of a getUserMedia for video.
VideoAcquisitions(requests) ==
    {k \in DOMAIN requests :
        requests[k].api = "getUserMedia" /\ requests[k].video}

\* C17: an invocation of startCapture asks for the video at most once;
\* the step in which the video request fails reports the error, with no
\* request added; after it the invocation reports and requests nothing
\* more, and with no other invocation in flight a request is made only by
\* the next click.
C17_NoRetry ==
    [][\A i \in Calls :
          /\ Cardinality(VideoAcquisitions(calls'[i].requests)) <= 1
          /\ (calls[i].videoOutcome = "none"
                /\ calls'[i].videoOutcome \in HostErrors) =>
                /\ calls[i].alert = ""
                /\ calls'[i].alert = calls'[i].videoOutcome
                /\ calls'[i].result = "rejected"
                /\ calls'[i].pc = "done"
                /\ calls'[i].requests = calls[i].requests
                /\ calls[i].requests = <<VideoRequest(calls[i].deviceId)>>
          /\ calls[i].videoOutcome \in HostErrors =>
                /\ calls'[i] = calls[i]
                /\ (\A j \in Calls : ~InFlight(j)) =>
                      \A j \in Calls :
                          calls'[j].requests # calls[j].requests =>
                              /\ nCalls' = nCalls + 1
                              /\ j = nCalls'
                              /\ calls[j].pc = "idle"]_vars

\* The first invocation failed and reported its error, and the button was
\* clicked again afterwards: the second invocation has made its request.
C17_Witness ==
    /\ nCalls = 2
    /\ calls[1].result = "rejected"
    /\ calls[1].alert \in HostErrors
    /\ calls[1].requests = <<VideoRequest(calls[1].deviceId)>>
    /\ calls[2].requests # <<>>

\* Invocation i ends in this step without a stream: by its early return or
\* by the rejection of createMediaStream.
EndsWithoutStream(i) ==
    /\ calls[i].pc # "done"
    /\ calls'[i].pc = "done"
    /\ calls'[i].result # "resolved"

\* C18: isCapturing is true, the stream variable is set and a delayed
\* callback is pending only for a resolved createMediaStream call; the step
\* in which an invocation returns early or is rejected leaves isCapturing,
\* stream and the pending callbacks as they were, and a lone invocation
\* ending so leaves isCapturing false and stream null.
C18_CapturingOnlyAfterResolve ==
    [][/\ isCapturing' => \E i \in Calls : calls'[i].result = "resolved"
       /\ stream' # NoStream => calls'[stream'].result = "resolved"
       /\ \A i \in timers' : calls'[i].result = "resolved"
       /\ \A i \in Calls :
             EndsWithoutStream(i) =>
                /\ UNCHANGED <<isCapturing, stream, timers, surface,
                               streams, videoElement>>
                /\ i \notin timers'
                /\ calls'[i].alert # ""
                /\ calls'[i].returned = <<>>
                /\ (\A j \in Calls : j # i => ~Acquired(j)) =>
                      /\ ~isCapturing'
                      /\ stream' = NoStream
                      /\ timers' = {}]_vars

\* One invocation returned early for want of a selected device, a later one
\* was rejected, and the menu is still shown with no stream held.
C18_Witness ==
    /\ \E i, j \in Calls :
          /\ calls[i].alert = "select"
          /\ calls[i].pc = "done"
          /\ calls[j].result = "rejected"
    /\ ~isCapturing
    /\ stream = NoStream
    /\ timers = {}

\* A delayed callback runs in this step.
CallbackRuns == timers' # timers /\ timers' \subseteq timers

\* C19: when a delayed callback runs with the element bound and a stream
\* held, the surface gets that stream, which has a live track, and the
\* component has not been destroyed; otherwise the callback leaves the
\* surface alone; and nothing else changes the source of the surface.
C19_AttachesHeldLiveStream ==
    [][/\ (CallbackRuns /\ videoElement # NoElement /\ stream # NoStream) =>
             /\ surface'.srcObject = stream
             /\ stream' = stream
             /\ HasLiveTrack(stream)
             /\ \E t \in Range(streams'[stream']) : readyState'[t] = "live"
             /\ ~destroyed
       /\ (CallbackRuns /\ ~(videoElement # NoElement /\ stream # NoStream)) =>
             surface' = surface
       /\ surface'.srcObject # surface.srcObject => CallbackRuns]_vars

\* Two invocations resolved one after the other and both callbacks have
\* run: the surface shows the stream now held, that of the second.
C19_Witness ==
    /\ \A i \in 1..2 : Acquired(i)
    /\ timers = {}
    /\ stream = 2
    /\ surface.srcObject = stream
    /\ ~destroyed

====
